---- MODULE Spec2Model ----
(***************************************************************************)
(* Model of ketu/ketu.py: the catalogs of bodies and aspects, the angular  *)
(* geometry helpers, the memoized orb resolver, the catalog lookup by      *)
(* name, the aspect classifier get_aspect and the set builder get_aspects. *)
(*                                                                         *)
(* Angles are exact rationals held as integers: one unit is 1/Unit of a    *)
(* degree (1/6 degree), which represents every orb of the catalogs         *)
(* exactly.  Arguments of dd_to_dms are held in 1/SecFrac of an arc-second.*)
(* Floating point rounding of the float32 catalogs is not modelled.        *)
(***************************************************************************)
EXTENDS Integers, Sequences, FiniteSets, TLC

\* op         the function whose call has returned, "init" before the call
\* arg        the arguments of the call
\* ret        what the call returned or raised
\* drv        the caller's position in its sequence of calls
\* eph        what the ephemeris provider computes for each (jdate, body)
\* prop_cache the lru_cache of body_properties
\* orb_cache  the lru_cache of get_orb
\* calls      the evaluations of get_aspect made by the last get_aspects
\* queries    the provider queries made by the last call
VARIABLES op, arg, ret, drv, eph, prop_cache, orb_cache, calls, queries

vars == <<op, arg, ret, drv, eph, prop_cache, orb_cache, calls, queries>>

\* ------------------------------------------------------------------ scale
Unit == 2 * 3

SecFrac == 2

None == "None"

\* --------------------------------------------------------------- catalogs
bodies ==
  << [name |-> "Sun",     id |-> 0,  orb |-> 12],
     [name |-> "Moon",    id |-> 1,  orb |-> 12],
     [name |-> "Mercury", id |-> 2,  orb |-> 8],
     [name |-> "Venus",   id |-> 3,  orb |-> 8],
     [name |-> "Mars",    id |-> 4,  orb |-> 10],
     [name |-> "Jupiter", id |-> 5,  orb |-> 10],
     [name |-> "Saturn",  id |-> 6,  orb |-> 10],
     [name |-> "Uranus",  id |-> 7,  orb |-> 6],
     [name |-> "Neptune", id |-> 8,  orb |-> 6],
     [name |-> "Pluto",   id |-> 9,  orb |-> 4],
     [name |-> "Rahu",    id |-> 10, orb |-> 0] >>

\* coef is the rational num/den
aspects ==
  << [name |-> "Conjunction", value |-> 0,   num |-> 1, den |-> 1],
     [name |-> "Sextile",     value |-> 60,  num |-> 1, den |-> 3],
     [name |-> "Square",      value |-> 90,  num |-> 1, den |-> 2],
     [name |-> "Trine",       value |-> 120, num |-> 2, den |-> 3],
     [name |-> "Opposition",  value |-> 180, num |-> 1, den |-> 1] >>

signs ==
  << "Aries", "Taurus", "Gemini", "Cancer", "Leo", "Virgo", "Libra",
     "Scorpio", "Sagittarius", "Capricorn", "Aquarius", "Pisces" >>

BodyIds == { bodies[i].id : i \in 1..Len(bodies) }

AspectValues == { aspects[i].value : i \in 1..Len(aspects) }

\* ------------------------------------------------------------- arithmetic
Abs(x) == IF x < 0 THEN -x ELSE x

\* Python divmod for a positive divisor: floor quotient, remainder in [0,d)
DivMod(x, d) == << x \div d, x % d >>

\* conversion to dtype 'i4' of a value held as n/f: truncation toward zero
Trunc(n, f) == IF n >= 0 THEN n \div f ELSE -((-n) \div f)

\* --------------------------------------------------------------- geometry
\* dd_to_dms(deg): deg is held as v = deg * 3600 * SecFrac
dd_to_dms_round(v) ==
  LET ms == DivMod(v, 60 * SecFrac)
      dm == DivMod(ms[1], 60)
  IN  << dm[1], dm[2], (2 * ms[2] + SecFrac) \div (2 * SecFrac) >>

dd_to_dms(v) ==
  LET ms == DivMod(v, 60 * SecFrac)
      mins == ms[1]
      secs == ms[2]
      dm == DivMod(mins, 60)
  IN  << Trunc(dm[1], 1), Trunc(dm[2], 1), Trunc(secs, SecFrac) >>

distance_signed(pos1, pos2) ==
  LET angle == pos2 - pos1
  IN  IF angle <= 180 * Unit THEN angle ELSE 360 * Unit - angle

distance(pos1, pos2) ==
  LET angle == Abs(pos2 - pos1)
  IN  IF angle <= 180 * Unit THEN angle ELSE 360 * Unit - angle

\* body_sign(long): long is held like the argument of dd_to_dms
body_sign(v) ==
  LET dms == dd_to_dms(v)
      sd == DivMod(dms[1], 30)
  IN  << sd[1], sd[2], dms[2], dms[3] >>

\* ------------------------------------------------------------- lru_cache
\* functools.lru_cache(): a cache is a sequence of entries, least recently
\* used first, holding at most maxsize entries; a raised call stores nothing
maxsize == 128

LruIndex(cache, key) ==
  IF \E i \in 1..Len(cache) : cache[i].key = key
  THEN CHOOSE i \in 1..Len(cache) : cache[i].key = key
  ELSE 0

LruTouch(cache, i) ==
  [ j \in 1..Len(cache) |->
      IF j < i THEN cache[j]
      ELSE IF j < Len(cache) THEN cache[j + 1] ELSE cache[i] ]

LruStore(cache, key, val) ==
  LET e == [key |-> key, val |-> val]
  IN  IF Len(cache) >= maxsize THEN Append(Tail(cache), e)
      ELSE Append(cache, e)

\* ------------------------------------------------------------ orb resolver
\* body of get_orb: orb in angle units, or IndexError when no aspect of the
\* catalog has the value `aspect`
get_orb_body_unparenthesized(body1, body2, aspect) ==
  LET sel == { i \in 1..Len(aspects) : aspects[i].value = aspect }
  IN  IF sel = {} THEN [raised |-> "IndexError"]
      ELSE LET a == aspects[CHOOSE i \in sel : \A j \in sel : i <= j]
           IN  [raised |-> None,
                val |-> bodies[body1 + 1].orb * Unit
                        + (bodies[body2 + 1].orb * Unit * a.num)
                          \div (2 * a.den)]

get_orb_body(body1, body2, aspect) ==
  LET sel == { i \in 1..Len(aspects) : aspects[i].value = aspect }
  IN  IF sel = {} THEN [raised |-> "IndexError"]
      ELSE LET a == aspects[CHOOSE i \in sel : \A j \in sel : i <= j]
           IN  [raised |-> None,
                val |-> ((bodies[body1 + 1].orb + bodies[body2 + 1].orb)
                          * Unit * a.num) \div (2 * a.den)]

\* key under which lru_cache files a call of get_orb
get_orb_key_no_aspect(body1, body2, aspect) == <<body1, body2, 0>>

get_orb_key(body1, body2, aspect) == <<body1, body2, aspect>>

\* get_orb through its cache: the result, whether it was a hit, the new cache
get_orb(cache, body1, body2, aspect) ==
  LET key == get_orb_key(body1, body2, aspect)
      i == LruIndex(cache, key)
  IN  IF i > 0
      THEN [raised |-> None, val |-> cache[i].val, hit |-> TRUE,
            cache |-> LruTouch(cache, i)]
      ELSE LET r == get_orb_body(body1, body2, aspect)
           IN  IF r.raised # None
               THEN [raised |-> r.raised, val |-> 0, hit |-> FALSE,
                     cache |-> cache]
               ELSE [raised |-> None, val |-> r.val, hit |-> FALSE,
                     cache |-> LruStore(cache, key, r.val)]

\* ------------------------------------------------------ ephemeris provider
EphemerisError == "EphemerisError"

\* swe.calc_ut(jdate, body)[0]: what the provider computes for (jdate, body),
\* a record [raised, long]: a longitude, or its failure
swe_calc_ut(jdate, body) == eph[<<jdate, body>>]

Computed(long) == [raised |-> None, long |-> long]

Failed == [raised |-> EphemerisError, long |-> 0]

\* body_properties through its cache; q is the log of provider queries.
\* Only the longitude, element 0 of the array, is kept.
body_properties_caches_failure(cache, q, jdate, body) ==
  LET key == <<jdate, body>>
      i == LruIndex(cache, key)
  IN  IF i > 0
      THEN [raised |-> IF cache[i].val = << >> THEN EphemerisError ELSE None,
            val |-> cache[i].val, cache |-> LruTouch(cache, i),
            queries |-> q]
      ELSE LET r == swe_calc_ut(jdate, body)
               v == IF r.raised # None THEN << >> ELSE <<r.long>>
           IN  [raised |-> r.raised, val |-> v,
                cache |-> LruStore(cache, key, v),
                queries |-> Append(q, key)]

body_properties(cache, q, jdate, body) ==
  LET key == <<jdate, body>>
      i == LruIndex(cache, key)
  IN  IF i > 0
      THEN [raised |-> None, val |-> cache[i].val,
            cache |-> LruTouch(cache, i), queries |-> q]
      ELSE LET r == swe_calc_ut(jdate, body)
           IN  IF r.raised # None
               THEN [raised |-> r.raised, val |-> << >>,
                     cache |-> cache, queries |-> Append(q, key)]
               ELSE [raised |-> None, val |-> <<r.long>>,
                     cache |-> LruStore(cache, key, <<r.long>>),
                     queries |-> Append(q, key)]

\* body_long: element 0 of the array that body_properties returned as r
body_long_of(r) ==
  IF r.raised # None THEN r ELSE [r EXCEPT !.val = r.val[1]]

body_long(cache, q, jdate, body) ==
  body_long_of(body_properties(cache, q, jdate, body))

\* -------------------------------------------------------- aspect classifier
\* the None that get_aspect returns when no aspect applies
NoAspect == << >>

RECURSIVE get_aspect_loop(_, _, _, _, _)

\* one turn of the loop of get_aspect, for catalog row i, with o the return
\* of get_orb(body1, body2, aspect)
get_aspect_turn_strict(i, o, body1, body2, dist) ==
  IF o.raised # None
  THEN [raised |-> o.raised, val |-> NoAspect, orb_cache |-> o.cache]
  ELSE IF aspects[i].value = 0 /\ dist < o.val
  THEN [raised |-> None, val |-> <<body1, body2, aspects[i].value, dist>>,
        orb_cache |-> o.cache]
  ELSE IF aspects[i].value * Unit - o.val < dist
          /\ dist < aspects[i].value * Unit + o.val
  THEN [raised |-> None,
        val |-> <<body1, body2, aspects[i].value,
                  aspects[i].value * Unit - dist>>,
        orb_cache |-> o.cache]
  ELSE get_aspect_loop(i + 1, o.cache, body1, body2, dist)

get_aspect_turn(i, o, body1, body2, dist) ==
  IF o.raised # None
  THEN [raised |-> o.raised, val |-> NoAspect, orb_cache |-> o.cache]
  ELSE IF aspects[i].value = 0 /\ dist <= o.val
  THEN [raised |-> None, val |-> <<body1, body2, aspects[i].value, dist>>,
        orb_cache |-> o.cache]
  ELSE IF aspects[i].value * Unit - o.val <= dist
          /\ dist <= aspects[i].value * Unit + o.val
  THEN [raised |-> None,
        val |-> <<body1, body2, aspects[i].value,
                  aspects[i].value * Unit - dist>>,
        orb_cache |-> o.cache]
  ELSE get_aspect_loop(i + 1, o.cache, body1, body2, dist)

\* the loop of get_aspect over aspects['value'], from catalog row i on
get_aspect_loop(i, oc, body1, body2, dist) ==
  IF i > Len(aspects)
  THEN [raised |-> None, val |-> NoAspect, orb_cache |-> oc]
  ELSE get_aspect_turn(i, get_orb(oc, body1, body2, aspects[i].value),
                       body1, body2, dist)

\* get_aspect once both longitudes l1, l2 are there and the loop returned r
get_aspect_return(l2, r) ==
  [raised |-> r.raised, val |-> r.val, prop_cache |-> l2.cache,
   orb_cache |-> r.orb_cache, queries |-> l2.queries]

\* get_aspect after body_long(jdate, body2) returned l2
get_aspect_long2(oc, body1, body2, l1, l2) ==
  IF l2.raised # None
  THEN [raised |-> l2.raised, val |-> NoAspect, prop_cache |-> l2.cache,
        orb_cache |-> oc, queries |-> l2.queries]
  ELSE get_aspect_return(l2,
         get_aspect_loop(1, oc, body1, body2, distance(l1.val, l2.val)))

\* get_aspect after body_long(jdate, body1) returned l1
get_aspect_long1(oc, jdate, body1, body2, l1) ==
  IF l1.raised # None
  THEN [raised |-> l1.raised, val |-> NoAspect, prop_cache |-> l1.cache,
        orb_cache |-> oc, queries |-> l1.queries]
  ELSE get_aspect_long2(oc, body1, body2, l1,
         body_long(l1.cache, l1.queries, jdate, body2))

\* get_aspect after the swap `if body1 > body2`
get_aspect_sorted(pc, oc, q, jdate, body1, body2) ==
  get_aspect_long1(oc, jdate, body1, body2, body_long(pc, q, jdate, body1))

\* get_aspect(jdate, body1, body2) from caches pc, oc and query log q
get_aspect(pc, oc, q, jdate, body1, body2) ==
  IF body1 > body2 THEN get_aspect_sorted(pc, oc, q, jdate, body2, body1)
  ELSE get_aspect_sorted(pc, oc, q, jdate, body1, body2)

\* -------------------------------------------------------------- set builder
RECURSIVE combs_from(_, _, _)
RECURSIVE combs_with_replacement_from(_, _, _)
RECURSIVE get_aspects_loop(_, _, _, _)

\* itertools.combinations(bodies_id, 2): the pairs of positions i < j, in
\* lexicographic order of positions
combs_from(S, i, j) ==
  IF i > Len(S) THEN << >>
  ELSE IF j > Len(S) THEN combs_from(S, i + 1, i + 2)
  ELSE << <<S[i], S[j]>> >> \o combs_from(S, i, j + 1)

combs_with_replacement_from(S, i, j) ==
  IF i > Len(S) THEN << >>
  ELSE IF j > Len(S) THEN combs_with_replacement_from(S, i + 1, i + 1)
  ELSE << <<S[i], S[j]>> >> \o combs_with_replacement_from(S, i, j + 1)

combs_with_replacement(S) == combs_with_replacement_from(S, 1, 1)

combs(S) == combs_from(S, 1, 2)

\* the state of the comprehension after get_aspect(jdate, *comb) returned r:
\* caches and query log of r, the evaluation logged in calls
AfterGetAspect(st, comb, r) ==
  [st EXCEPT !.prop_cache = r.prop_cache, !.orb_cache = r.orb_cache,
             !.queries = r.queries,
             !.calls = Append(@, IF r.raised # None
                                 THEN [pair |-> comb, raised |-> r.raised]
                                 ELSE [pair |-> comb, raised |-> None,
                                       val |-> r.val]),
             !.raised = r.raised, !.last = r.val]

\* one evaluation of get_aspect(jdate, *comb) inside the comprehension
LoggedGetAspect(st, comb) ==
  AfterGetAspect(st, comb,
    get_aspect(st.prop_cache, st.orb_cache, st.queries, st.jdate,
               comb[1], comb[2]))

\* what the comprehension does after one evaluation left it in state r: for
\* each pair the filter `if get_aspect(jdate, *comb) is not None` is
\* evaluated first and, when it holds, the element `get_aspect(jdate, *comb)`
\* next, which is appended; an exception ends the comprehension
get_aspects_next(cs, k, phase, r) ==
  IF r.raised # None THEN r
  ELSE IF phase = "filter" /\ r.last # NoAspect
  THEN get_aspects_loop(cs, k, "element", r)
  ELSE IF phase = "element"
  THEN get_aspects_loop(cs, k + 1, "filter",
                        [r EXCEPT !.out = Append(@, r.last)])
  ELSE get_aspects_loop(cs, k + 1, "filter", r)

\* the list comprehension of get_aspects from pair k of cs on
get_aspects_loop(cs, k, phase, st) ==
  IF k > Len(cs) THEN st
  ELSE get_aspects_next(cs, k, phase, LoggedGetAspect(st, cs[k]))

\* get_aspects(jdate, bodies_id) from caches pc and oc
get_aspects(pc, oc, jdate, bodies_id) ==
  get_aspects_loop(combs(bodies_id), 1, "filter",
    [jdate |-> jdate, prop_cache |-> pc, orb_cache |-> oc, queries |-> << >>,
     calls |-> << >>, raised |-> None, last |-> NoAspect, out |-> << >>])

\* ---------------------------------------------------------- catalog lookup
\* body_id(b_name): the ids of the rows whose name equals b_name, as an
\* array (a sequence), in catalog order; nothing is raised
body_id(b_name) ==
  LET F[i \in 0..Len(bodies)] ==
        IF i = 0 THEN << >>
        ELSE IF bodies[i].name = b_name THEN Append(F[i - 1], bodies[i].id)
             ELSE F[i - 1]
  IN  [raised |-> None, ids |-> F[Len(bodies)]]

\* ============================================================== geometry
\* longitudes offered to distance: every whole degree of [0,360)
DistLongs == { d * Unit : d \in 0..359 }

\* arguments offered to dd_to_dms / body_sign: one degree above each base
DegBases == {0, 29, 271, 359, 725}

\* the inputs of one call are drawn in the initial state, the action applies
\* the function to them
GeometryInputs(a) ==
  \/ \E p1 \in DistLongs, p2 \in DistLongs :
       a = [f |-> "distance", pos1 |-> p1, pos2 |-> p2]
  \/ \E b \in DegBases, o \in 0..(3600 * SecFrac - 1) :
       a = [f |-> "dd_to_dms", deg |-> (b * 3600 * SecFrac) + o]
  \/ \E b \in { x \in DegBases : x < 360 }, o \in 0..(3600 * SecFrac - 1) :
       a = [f |-> "body_sign", long |-> (b * 3600 * SecFrac) + o]

Distance ==
  /\ op = "init" /\ arg.f = "distance"
  /\ op' = "distance"
  /\ ret' = distance(arg.pos1, arg.pos2)
  /\ UNCHANGED <<arg, drv, eph, prop_cache, orb_cache, calls, queries>>

DdToDms ==
  /\ op = "init" /\ arg.f = "dd_to_dms"
  /\ op' = "dd_to_dms"
  /\ ret' = dd_to_dms(arg.deg)
  /\ UNCHANGED <<arg, drv, eph, prop_cache, orb_cache, calls, queries>>

BodySign ==
  /\ op = "init" /\ arg.f = "body_sign"
  /\ op' = "body_sign"
  /\ ret' = body_sign(arg.long)
  /\ UNCHANGED <<arg, drv, eph, prop_cache, orb_cache, calls, queries>>

InitGeometry ==
  /\ op = "init"
  /\ GeometryInputs(arg)
  /\ ret = None
  /\ drv = << >>
  /\ eph = << >>
  /\ prop_cache = << >>
  /\ orb_cache = << >>
  /\ calls = << >>
  /\ queries = << >>

NextGeometry == Distance \/ DdToDms \/ BodySign

SpecGeometry == InitGeometry /\ [][NextGeometry]_vars

\* C4: distance is symmetric, lies in [0,180], and wraps a raw difference
\* above 180 (a difference of 358 degrees yields 2 degrees).
C4_DistanceSymmetricInRange ==
  op = "distance" =>
    /\ ret = distance(arg.pos2, arg.pos1)
    /\ 0 <= ret /\ ret <= 180 * Unit
    /\ (Abs(arg.pos2 - arg.pos1) = 358 * Unit => ret = 2 * Unit)

C4_Witness ==
  /\ op = "distance"
  /\ arg.pos1 = 359 * Unit /\ arg.pos2 = 1 * Unit
  /\ ret = 2 * Unit

\* C8: dd_to_dms truncates a non-negative value to (degrees, minutes,
\* seconds) with minutes and seconds in [0,60) and an error below one
\* arc-second, 271.45 gives (271, 27, 0); body_sign of a longitude in
\* [0,360) gives a sign in [0,12) and degrees in [0,30) that recompose the
\* truncated degrees.
C8_DmsTruncation ==
  /\ op = "dd_to_dms" =>
       LET d == ret[1]
           m == ret[2]
           s == ret[3]
           err == arg.deg - (d * 3600 + m * 60 + s) * SecFrac
       IN  /\ 0 <= m /\ m < 60
           /\ 0 <= s /\ s < 60
           /\ 0 <= err /\ err < SecFrac
           /\ (arg.deg = 977220 * SecFrac => ret = <<271, 27, 0>>)
  /\ op = "body_sign" =>
       /\ ret[1] \in 0..11
       /\ ret[2] \in 0..29
       /\ ret[1] * 30 + ret[2] = arg.long \div (3600 * SecFrac)

C8_Witness ==
  /\ op = "dd_to_dms"
  /\ arg.deg = 977220 * SecFrac + 1
  /\ ret = <<271, 27, 0>>

\* =========================================================== orb resolver
\* The caller sweeps the (body1, body2, aspect) triples of the catalogs,
\* body1 slowest and aspect fastest, with a stride drawn in the initial
\* state, and may once call again a triple it called `back` calls ago.
MaxOrbCalls == 134

Strides == {1, 7, 56}

RepeatBack == {1, maxsize, maxsize + 1}

NumTriples == Len(bodies) * Len(bodies) * Len(aspects)

Triple(i) ==
  [body1 |-> i \div (Len(bodies) * Len(aspects)),
   body2 |-> (i \div Len(aspects)) % Len(bodies),
   aspect |-> aspects[(i % Len(aspects)) + 1].value]

SweepIndex(n) == (n * drv.stride) % NumTriples

CallGetOrb(t, d) ==
  LET r == get_orb(orb_cache, t.body1, t.body2, t.aspect)
  IN  /\ op' = "get_orb"
      /\ arg' = [f |-> "get_orb", body1 |-> t.body1, body2 |-> t.body2,
                  aspect |-> t.aspect]
      /\ ret' = [raised |-> r.raised, val |-> r.val, hit |-> r.hit]
      /\ orb_cache' = r.cache
      /\ drv' = d
      /\ UNCHANGED <<eph, prop_cache, calls, queries>>

GetOrbNext ==
  /\ drv.n < MaxOrbCalls
  /\ CallGetOrb(Triple(SweepIndex(drv.n)), [drv EXCEPT !.n = @ + 1])

GetOrbAgain ==
  /\ drv.back = 0
  /\ \E b \in RepeatBack :
       /\ b <= drv.n
       /\ CallGetOrb(Triple(SweepIndex(drv.n - b)), [drv EXCEPT !.back = b])

InitOrb ==
  /\ op = "init"
  /\ arg = [f |-> "none"]
  /\ ret = None
  /\ \E k \in Strides : drv = [stride |-> k, n |-> 0, back |-> 0]
  /\ eph = << >>
  /\ prop_cache = << >>
  /\ orb_cache = << >>
  /\ calls = << >>
  /\ queries = << >>

NextOrb == GetOrbNext \/ GetOrbAgain

SpecOrb == InitOrb /\ [][NextOrb]_vars

\* C5: after any sequence of get_orb calls, evictions included, the value
\* returned for a triple of the catalogs is (orb1 + orb2)/2 x coefficient of
\* that triple, and every cached value is the value of its own key.
C5_IsOrbOf(val, body1, body2, aspect) ==
  \E i \in 1..Len(aspects) :
    /\ aspects[i].value = aspect
    /\ 2 * aspects[i].den * val
         = (bodies[body1 + 1].orb + bodies[body2 + 1].orb) * Unit
           * aspects[i].num

CatalogNames == { bodies[i].name : i \in 1..Len(bodies) }

LowerNames ==
  { "sun", "moon", "mercury", "venus", "mars", "jupiter", "saturn",
    "uranus", "neptune", "pluto", "rahu" }

UpperNames ==
  { "SUN", "MOON", "MERCURY", "VENUS", "MARS", "JUPITER", "SATURN",
    "URANUS", "NEPTUNE", "PLUTO", "RAHU" }

PaddedNames ==
  { "Sun ", "Moon ", "Mercury ", "Venus ", "Mars ", "Jupiter ", "Saturn ",
    "Uranus ", "Neptune ", "Pluto ", "Rahu " }

OtherNames ==
  { "", "Ketu", "Earth", "mean Node", "Chiron", "Su", "Plut", "0" }

LookupNames ==
  CatalogNames \cup LowerNames \cup UpperNames \cup PaddedNames
    \cup OtherNames

BodyId ==
  /\ op = "init" /\ arg.f = "body_id"
  /\ op' = "body_id"
  /\ ret' = body_id(arg.b_name)
  /\ UNCHANGED <<arg, drv, eph, prop_cache, orb_cache, calls, queries>>

InitBodyId ==
  /\ op = "init"
  /\ \E n \in LookupNames : arg = [f |-> "body_id", b_name |-> n]
  /\ ret = None
  /\ drv = << >>
  /\ eph = << >>
  /\ prop_cache = << >>
  /\ orb_cache = << >>
  /\ calls = << >>
  /\ queries = << >>

NextBodyId == BodyId

SpecBodyId == InitBodyId /\ [][NextBodyId]_vars

\* C6: lookup by name returns the unique id of the body when the name is in
\* the catalog (case-sensitive exact match) and fails with NotFoundError
\* when it is absent, rather than returning an empty result.
C6_LookupFailsWhenAbsent ==
  op = "body_id" =>
    IF arg.b_name \in CatalogNames
    THEN /\ ret.raised = None
         /\ Len(ret.ids) = 1
         /\ \E i \in 1..Len(bodies) :
              bodies[i].name = arg.b_name /\ ret.ids[1] = bodies[i].id
    ELSE ret.raised = "NotFoundError"

\* ======================================================= aspect classifier
\* One call of get_aspect.  The initial state draws the two bodies and what
\* the provider computes for them: the first body at a fixed longitude, the
\* second anywhere on the circle in steps of 1/Unit degree, or a failure.
Dates == {2459205}

AnchorLongs == {250 * Unit}

FineLongs == 0..(360 * Unit - 1)

\* the call of get_aspect returned r
GetAspectReturn(r) ==
  /\ op' = "get_aspect"
  /\ ret' = IF r.raised # None THEN [raised |-> r.raised]
            ELSE [raised |-> None, val |-> r.val]
  /\ prop_cache' = r.prop_cache
  /\ orb_cache' = r.orb_cache
  /\ queries' = r.queries

GetAspect ==
  /\ op = "init" /\ arg.f = "get_aspect"
  /\ GetAspectReturn(get_aspect(prop_cache, orb_cache, << >>,
                                arg.jdate, arg.body1, arg.body2))
  /\ UNCHANGED <<arg, drv, eph, calls>>

InitClassify ==
  /\ op = "init"
  /\ ret = None
  /\ drv = << >>
  /\ prop_cache = << >>
  /\ orb_cache = << >>
  /\ calls = << >>
  /\ queries = << >>
  /\ \E d \in Dates, x \in BodyIds, y \in BodyIds,
        p \in { Computed(l) : l \in AnchorLongs } \cup {Failed},
        q \in { Computed(l) : l \in FineLongs } \cup {Failed} :
       /\ arg = [f |-> "get_aspect", jdate |-> d, body1 |-> x, body2 |-> y]
       /\ eph = [k \in {<<d, x>>, <<d, y>>} |->
                   IF k = <<d, x>> THEN p ELSE q]

NextClassify == GetAspect

SpecClassify == InitClassify /\ [][NextClassify]_vars

\* the canonical pair and the angular distance of a returned get_aspect call
ArgLow == IF arg.body1 > arg.body2 THEN arg.body2 ELSE arg.body1

ArgHigh == IF arg.body1 > arg.body2 THEN arg.body1 ELSE arg.body2

ArgDist ==
  LET l1 == eph[<<arg.jdate, arg.body1>>].long
      l2 == eph[<<arg.jdate, arg.body2>>].long
      a == IF l1 > l2 THEN l1 - l2 ELSE l2 - l1
  IN  IF a <= 180 * Unit THEN a ELSE 360 * Unit - a

\* aspect row i accepts distance d for the pair: d <= orb for the
\* conjunction, separation - orb <= d <= separation + orb otherwise, with
\* orb = (orb1 + orb2)/2 x coef, compared exactly
C1_Accepts(body1, body2, i, d) ==
  LET w == (bodies[body1 + 1].orb + bodies[body2 + 1].orb) * Unit
             * aspects[i].num
      n == 2 * aspects[i].den
      sep == aspects[i].value * Unit
  IN  IF aspects[i].value = 0 THEN n * d <= w
      ELSE n * sep - w <= n * d /\ n * d <= n * sep + w

\* the trine orb of the pair of the call, at the upper edge of its window
C1_EdgeOrb ==
  ((bodies[ArgLow + 1].orb + bodies[ArgHigh + 1].orb) * Unit * 2) \div 6

\* C1: get_aspect returns a match iff some aspect of the catalog accepts the
\* angular distance of the two longitudes; the match is the canonical pair
\* with the first accepting aspect in ascending-separation order; otherwise
\* the result is None.
C1_MatchIffAccepted ==
  (op = "get_aspect" /\ ret.raised = None) =>
    LET acc == { i \in 1..Len(aspects) :
                   C1_Accepts(ArgLow, ArgHigh, i, ArgDist) }
    IN  IF acc = {} THEN ret.val = NoAspect
        ELSE /\ ret.val # NoAspect
             /\ ret.val[1] = ArgLow
             /\ ret.val[2] = ArgHigh
             /\ ret.val[3]
                  = aspects[CHOOSE i \in acc : \A j \in acc : i <= j].value

C1_Witness ==
  /\ op = "get_aspect"
  /\ arg.body1 > arg.body2
  /\ ret.raised = None
  /\ ret.val # NoAspect
  /\ ret.val[3] = 120
  /\ ArgDist = 120 * Unit + C1_EdgeOrb

\* C2: the residual orb of a non-conjunction match is |separation - distance|,
\* hence non-negative on both sides of the target separation.
C2_ResidualIsAbsolute ==
  (op = "get_aspect" /\ ret.raised = None /\ ret.val # NoAspect) =>
    (ret.val[3] # 0 =>
       /\ ret.val[4] = Abs(ret.val[3] * Unit - ArgDist)
       /\ ret.val[4] >= 0)

\* C10: for every pair of bodies the tolerance windows of distinct aspects,
\* [separation - orb, separation + orb] with orb = get_orb, are pairwise
\* disjoint, so at most one aspect accepts a distance and the aspect that
\* get_aspect returns is the one whose separation is nearest to the distance.
C10_Lo(i) ==
  aspects[i].value * Unit
    - get_orb_body(ArgLow, ArgHigh, aspects[i].value).val

C10_Hi(i) ==
  aspects[i].value * Unit
    + get_orb_body(ArgLow, ArgHigh, aspects[i].value).val

C10_WindowsDisjoint ==
  (op = "get_aspect" /\ ret.raised = None) =>
    /\ \A i \in 1..Len(aspects), j \in 1..Len(aspects) :
         i < j => C10_Hi(i) < C10_Lo(j)
    /\ Cardinality({ i \in 1..Len(aspects) :
                       C10_Lo(i) <= ArgDist /\ ArgDist <= C10_Hi(i) }) <= 1
    /\ ret.val # NoAspect =>
         \A j \in 1..Len(aspects) :
           Abs(ret.val[3] * Unit - ArgDist)
             <= Abs(aspects[j].value * Unit - ArgDist)

C10_Witness ==
  /\ op = "get_aspect"
  /\ ret.raised = None
  /\ ArgLow = 0 /\ ArgHigh = 1
  /\ ArgDist = 64 * Unit
  /\ ret.val # NoAspect
  /\ ret.val[3] = 60

\* ============================================================= set builder
\* Calls of get_aspects on one sequence of distinct body ids, in any order,
\* drawn in the initial state with what the provider computes for each body.
MaxSet == 3

MaxRuns == 2

AspectsPool == {0, 5, 6, 9, 10}

CoarseLongs == { 0 * Unit, 58 * Unit, 92 * Unit, 181 * Unit }

Range(S) == { S[i] : i \in 1..Len(S) }

\* the call of get_aspects ended in state r of its comprehension
GetAspectsReturn(r) ==
  /\ op' = "get_aspects"
  /\ ret' = IF r.raised # None THEN [raised |-> r.raised]
            ELSE [raised |-> None, val |-> r.out]
  /\ prop_cache' = r.prop_cache
  /\ orb_cache' = r.orb_cache
  /\ queries' = r.queries
  /\ calls' = r.calls

GetAspects ==
  /\ arg.f = "get_aspects"
  /\ drv.runs < MaxRuns
  /\ GetAspectsReturn(get_aspects(prop_cache, orb_cache,
                                  arg.jdate, arg.bodies_id))
  /\ drv' = [drv EXCEPT !.runs = @ + 1]
  /\ UNCHANGED <<arg, eph>>

InitAspects ==
  /\ op = "init"
  /\ ret = None
  /\ drv = [runs |-> 0]
  /\ prop_cache = << >>
  /\ orb_cache = << >>
  /\ calls = << >>
  /\ queries = << >>
  /\ \E d \in Dates, n \in 0..MaxSet :
       \E S \in [1..n -> AspectsPool] :
         /\ \A i \in 1..n, j \in 1..n : i # j => S[i] # S[j]
         /\ arg = [f |-> "get_aspects", jdate |-> d, bodies_id |-> S]
         /\ eph \in [ { <<d, S[i]>> : i \in 1..n } ->
                       { Computed(l) : l \in CoarseLongs } \cup {Failed} ]

NextAspects == GetAspects

SpecAspects == InitAspects /\ [][NextAspects]_vars

Canon(pair) ==
  IF pair[1] > pair[2] THEN <<pair[2], pair[1]>> ELSE pair

C7_FailurePropagates ==
  op = "get_aspects" =>
    LET S == arg.bodies_id
        failing == { b \in Range(S) :
                       eph[<<arg.jdate, b>>].raised = EphemerisError }
    IN  /\ (ret.raised = EphemerisError) <=> (Len(S) >= 2 /\ failing # {})
        /\ ret.raised \in {None, EphemerisError}
        /\ ret.raised = EphemerisError =>
             /\ DOMAIN ret = {"raised"}
             /\ calls # << >>
             /\ DOMAIN calls[Len(calls)] = {"pair", "raised"}
             /\ calls[Len(calls)].raised = EphemerisError
             /\ queries # << >>
             /\ eph[queries[Len(queries)]].raised = EphemerisError
             /\ \A i \in 1..Len(prop_cache) :
                  /\ prop_cache[i].key # queries[Len(queries)]
                  /\ eph[prop_cache[i].key].raised = None
                  /\ prop_cache[i].val = <<eph[prop_cache[i].key].long>>

C7_Witness ==
  /\ op = "get_aspects"
  /\ drv.runs = 2
  /\ ret.raised = EphemerisError
  /\ \E k \in 1..Len(calls) :
       calls[k].raised = None /\ calls[k].val # NoAspect
  /\ Len(queries) = 1
  /\ Len(prop_cache) = 2

\* C9: during one get_aspects call every unordered pair of S is classified
\* by get_aspect exactly once: |S|(|S|-1)/2 invocations, no pair twice.
C9_EachPairClassifiedOnce ==
  (op = "get_aspects" /\ ret.raised = None) =>
    LET n == Len(arg.bodies_id)
    IN  /\ 2 * Len(calls) = n * (n - 1)
        /\ \A k \in 1..Len(calls), l \in 1..Len(calls) :
             Canon(calls[k].pair) = Canon(calls[l].pair) => k = l

====
